---- MODULE Spec2Model ----
(***************************************************************************)
(* A model of the FAST menu widgets: the Menu container (roving tab stop,  *)
(* keyboard navigation, sibling exclusivity, focus-out reset) and the      *)
(* MenuItem (role-based activation, expansion, deferred positioning        *)
(* subscription).  Every handler is a function from a state record to a    *)
(* state record, so that the synchronous re-entrancy of the code (an       *)
(* attribute setter that runs a changed-callback that dispatches an event  *)
(* whose listener sets another attribute) is followed call by call.  An    *)
(* action of the model is one event-handling turn.                         *)
(***************************************************************************)
EXTENDS Integers, Sequences, FiniteSets, TLC

\* ----------------------------------------------------------------- bounds
\* Most direct children a Menu's child list holds.
MaxChildren == 2
\* Most tasks waiting in the DOM.queueUpdate queue.
MaxQueue == 1
\* Most changes of a Menu's child set after its first slotchange.
MaxChanges == 1

\* ------------------------------------------------------ the element tree
\* The elements.  "m0" is the root Menu; every other Menu is slotted as the
\* submenu of one MenuItem.  "hr" is a child that carries no menu-item role.
Root == "m0"
Menus == {"m0", "m1", "mc", "md", "mk", "mp"}
Items == {"a", "b", "c", "d", "k", "q", "p"}
Elements == Items \cup {"hr"}
null == "null"
outside == "outside"

\* The Menu an element is a child of, when it is in the tree.
Parent(e) == IF e = "p" THEN "m1" ELSE "m0"

\* The pages: for each Menu, the elements its markup and the scripts of the
\* page put into it and take out of it.
Pages ==
  LET page(top, nested) ==
        [m \in Menus |-> IF m = "m0" THEN top ELSE IF m = "m1" THEN nested ELSE {}]
  IN {page({"a", "b", "c", "hr"}, {}),
      page({"q", "d", "k"}, {}),
      page({"b", "c"}, {"p"})}

\* MenuItem.submenuElements: the elements slotted as the item's submenu.
submenuElements(i) ==
  CASE i = "b" -> <<"m1">>
    [] i = "c" -> <<"mc">>
    [] i = "d" -> <<"md">>
    [] i = "k" -> <<"mk">>
    [] i = "p" -> <<"mp">>
    [] OTHER -> <<>>

\* The MenuItem that owns Menu m as its submenu (null for the root).
Owner(m) ==
  CASE m = "m1" -> "b"
    [] m = "mc" -> "c"
    [] m = "md" -> "d"
    [] m = "mk" -> "k"
    [] m = "mp" -> "p"
    [] OTHER -> null

\* MenuItem.role (an element's role attribute).
role(e) ==
  CASE e = "k" -> "menuitemcheckbox"
    [] e = "q" -> "menuitemradio"
    [] e = "hr" -> "separator"
    [] OTHER -> "menuitem"

\* MenuItem.disabled.
disabled(e) == e = "d"

\* MenuItemRole: the recognised role markers.
MenuItemRole == {"menuitem", "menuitemcheckbox", "menuitemradio"}

\* The keys a keydown event can carry ("other" is any key no handler names).
Keys == {"Enter", "Space", "ArrowRight", "ArrowLeft",
         "ArrowDown", "ArrowUp", "Home", "End", "other"}

\* ------------------------------------------------------------ sequences
Range(seq) == {seq[n] : n \in 1..Len(seq)}

\* The sequences without repetition over S, of length at most n.
RECURSIVE SeqsUpTo(_, _)
SeqsUpTo(S, n) ==
  IF n = 0 THEN {<<>>}
  ELSE LET shorter == SeqsUpTo(S, n - 1)
       IN shorter \cup {Append(q, e) : q \in shorter, e \in S}

ChildLists(S) ==
  {q \in SeqsUpTo(S, MaxChildren) : Cardinality(Range(q)) = Len(q)}

\* Array.prototype.indexOf, 0-based, -1 when absent.
indexOf(seq, e) ==
  IF e \in Range(seq)
  THEN (CHOOSE n \in 1..Len(seq) :
          seq[n] = e /\ \A k \in 1..(n - 1) : seq[k] # e) - 1
  ELSE -1

\* lodash inRange(n, end): 0 <= n < end.
inRange(n, end) == 0 <= n /\ n < end

\* ---------------------------------------------------------------- state
VARIABLES
  pool,           \* Menu -> the elements of the page that can be its children
  changes,        \* the child-set changes so far, the first slotchanges apart
  rootConnected,  \* the root Menu is in the document
  dom,            \* Menu -> its direct children, in tree order
  menuItems,      \* Menu.menuItems
  focusIndex,     \* Menu.focusIndex
  expandedItem,   \* Menu.expandedItem
  inited,         \* Menu -> setItems has run for it
  tabindex,       \* element -> its tabindex attribute: "none", "0" or "-1"
  expanded,       \* MenuItem.expanded
  checked,        \* MenuItem.checked
  listening,      \* element -> its Menu's handleExpandedChanged is registered on it
  regionSub,      \* item -> handleAnchoredRegionChange is registered on its region
  queue,          \* the DOM.queueUpdate queue
  focused         \* the element holding input focus (outside: none in the tree)

vars == <<pool, changes, rootConnected, dom, menuItems, focusIndex, expandedItem, inited,
          tabindex, expanded, checked, listening, regionSub, queue, focused>>

\* The state as one record, with what a turn leaves behind besides the
\* state: log lists, in order, every change of an item's expanded, every
\* assignment to a Menu's expandedItem, every notification emitted and every
\* move of the input focus; threw says a TypeError was raised; exc is an
\* exception in flight; prevented is the defaultPrevented flag of the event
\* being dispatched.
State ==
  [rootConnected |-> rootConnected, dom |-> dom, menuItems |-> menuItems,
   focusIndex |-> focusIndex, expandedItem |-> expandedItem, inited |-> inited,
   tabindex |-> tabindex, expanded |-> expanded, checked |-> checked,
   listening |-> listening, regionSub |-> regionSub, queue |-> queue,
   focused |-> focused,
   log |-> <<>>, threw |-> FALSE, exc |-> FALSE, prevented |-> FALSE]

\* ---------------------------------------------------------- connectivity
\* $fastController.isConnected of a Menu and of an element.
RECURSIVE MenuConn(_, _)
ElemConn(s, e) == e \in Range(s.dom[Parent(e)]) /\ MenuConn(s, Parent(e))
MenuConn(s, m) == IF m = Root THEN s.rootConnected ELSE ElemConn(s, Owner(m))

\* Node.contains: e is a descendant of Menu m.
RECURSIVE Contains(_, _, _)
Contains(s, m, e) ==
  IF e \notin Elements \/ e \notin Range(s.dom[Parent(e)]) THEN FALSE
  ELSE IF Parent(e) = m THEN TRUE
  ELSE IF Parent(e) = Root THEN FALSE
  ELSE Contains(s, m, Owner(Parent(e)))

\* A submenu is displayed only while every item above it is expanded.
RECURSIVE Visible(_, _)
Visible(s, e) ==
  /\ ElemConn(s, e)
  /\ IF Parent(e) = Root THEN TRUE
     ELSE s.expanded[Owner(Parent(e))] /\ Visible(s, Owner(Parent(e)))

\* ------------------------------------------------------------ primitives
\* A TypeError: the state reached so far stays, the handler ends.
Throw(s) == [s EXCEPT !.exc = TRUE, !.threw = TRUE]

\* The boundary of a listener or queued task: its exception is reported to
\* the console and goes no further.
Caught(s) == [s EXCEPT !.exc = FALSE]

\* Element.setAttribute("tabindex", v).
setTabindex(s, e, v) == [s EXCEPT !.tabindex[e] = v]

\* Menu.isMenuItemElement: the role attribute is a recognised marker.
isMenuItemElement(e) == role(e) \in MenuItemRole

\* Menu.isFocusableElement.
isFocusableElement(e) == isMenuItemElement(e)

\* menuItems.findIndex(isFocusableElement), 0-based, -1 when there is none.
findFocusable(seq) ==
  IF \E n \in 1..Len(seq) : isFocusableElement(seq[n])
  THEN (CHOOSE n \in 1..Len(seq) :
          /\ isFocusableElement(seq[n])
          /\ \A k \in 1..(n - 1) : ~isFocusableElement(seq[k])) - 1
  ELSE -1

\* --------------------------------------- expansion: item and Menu together
RECURSIVE SetExpanded(_, _, _)

\* An assignment to Menu.expandedItem.
setExpandedItem(s, m, v) ==
  [s EXCEPT !.expandedItem[m] = v, !.log = Append(@, <<"expandedItem", m, v>>)]

\* Menu.collapseExpandedMenus.
collapseExpandedMenus(s, m) ==
  IF s.expandedItem[m] # null
  THEN LET s1 == SetExpanded(s, s.expandedItem[m], FALSE)
       IN setExpandedItem(s1, m, null)
  ELSE s

\* Menu.collapseExpandedItem, the name MenuItem.expandedChanged calls on each
\* submenu element: the Menu collapses its own expanded child.
collapseExpandedItem(s, m) == collapseExpandedMenus(s, m)

\* submenuElements.forEach(element => element.collapseExpandedItem()).
RECURSIVE collapseSubmenus(_, _, _)
collapseSubmenus(s, els, n) ==
  IF n > Len(els) THEN s
  ELSE collapseSubmenus(collapseExpandedItem(s, els[n]), els, n + 1)

\* A faulty handleExpandedChanged: the newly expanded child is recorded and
\* the previously recorded one is left expanded.
handleExpandedChangedKeepPrevious(s, m, i) ==
  IF indexOf(s.menuItems[m], i) < 0 THEN s
  ELSE IF s.expandedItem[m] # null /\ i = s.expandedItem[m] /\ s.expanded[i] = FALSE
  THEN setExpandedItem(s, m, null)
  ELSE IF s.expanded[i] THEN setExpandedItem(s, m, i)
  ELSE s

\* A faulty handleExpandedChanged: the newly expanded child is recorded
\* before the previously recorded one is told to collapse.
handleExpandedChangedRecordFirst(s, m, i) ==
  IF indexOf(s.menuItems[m], i) < 0 THEN s
  ELSE IF s.expandedItem[m] # null /\ i = s.expandedItem[m] /\ s.expanded[i] = FALSE
  THEN setExpandedItem(s, m, null)
  ELSE IF s.expanded[i]
  THEN LET previous == s.expandedItem[m]
           s1 == setExpandedItem(s, m, i)
       IN IF previous # null /\ previous # i THEN SetExpanded(s1, previous, FALSE) ELSE s1
  ELSE s

\* A faulty handleExpandedChanged: the source of the notification is not
\* looked up in menuItems.
handleExpandedChangedAnySource(s, m, i) ==
  IF s.expandedItem[m] # null /\ i = s.expandedItem[m] /\ s.expanded[i] = FALSE
  THEN setExpandedItem(s, m, null)
  ELSE IF s.expanded[i]
  THEN LET s1 == IF s.expandedItem[m] # null /\ s.expandedItem[m] # i
                 THEN SetExpanded(s, s.expandedItem[m], FALSE)
                 ELSE s
       IN setExpandedItem(s1, m, i)
  ELSE s

\* Menu.handleExpandedChanged, run for the expanded-change event of item i.
\* The event is fresh and this is its only listener, so e.defaultPrevented
\* is false and e.target is i.
handleExpandedChanged(s, m, i) ==
  IF indexOf(s.menuItems[m], i) < 0 THEN s
  ELSE IF s.expandedItem[m] # null /\ i = s.expandedItem[m] /\ s.expanded[i] = FALSE
  THEN setExpandedItem(s, m, null)
  ELSE IF s.expanded[i]
  THEN LET s1 == IF s.expandedItem[m] # null /\ s.expandedItem[m] # i
                 THEN SetExpanded(s, s.expandedItem[m], FALSE)
                 ELSE s
       IN setExpandedItem(s1, m, i)
  ELSE s

\* this.$emit("expanded-change", this, { bubbles: false }): the event reaches
\* the listeners registered on the item itself.
emitExpandedChange(s, i) ==
  LET s1 == [s EXCEPT !.log = Append(@, <<"emit", "expanded-change", i>>)]
  IN IF s1.listening[i] THEN Caught(handleExpandedChanged(s1, Parent(i), i)) ELSE s1

\* A faulty expandedChanged: a collapsing item leaves its submenus alone.
expandedChangedNoCascade(s, i) ==
  IF Len(submenuElements(i)) > 0 /\ ElemConn(s, i)
  THEN emitExpandedChange(s, i)
  ELSE s

\* MenuItem.expandedChanged.
expandedChanged(s, i) ==
  IF Len(submenuElements(i)) > 0 /\ ElemConn(s, i)
  THEN LET s1 == IF s.expanded[i] = FALSE
                 THEN collapseSubmenus(s, submenuElements(i), 1)
                 ELSE s
       IN emitExpandedChange(s1, i)
  ELSE s

\* The setter of the observed attribute MenuItem.expanded: the changed
\* callback runs only when the value changes.
SetExpanded(s, i, v) ==
  IF s.expanded[i] = v THEN s
  ELSE expandedChanged([s EXCEPT !.expanded[i] = v,
                                 !.log = Append(@, <<"expanded", i, IF v THEN "true" ELSE "false">>)], i)

\* ------------------------------------------------------------------ focus
\* Menu.handleFocusOut, for a focusout event whose relatedTarget is related.
handleFocusOut(s, m, related) ==
  IF Contains(s, m, related) THEN s
  ELSE LET s1 == collapseExpandedMenus(s, m)
           items == s1.menuItems[m]
           fi == findFocusable(items)
       IN IF ~inRange(s1.focusIndex[m], Len(items)) THEN Throw(s1)
          ELSE LET s2 == setTabindex(s1, items[s1.focusIndex[m] + 1], "-1")
               IN IF fi = -1 THEN Throw(s2)
                  ELSE [setTabindex(s2, items[fi + 1], "0") EXCEPT !.focusIndex[m] = fi]

\* The focusout event bubbles from the element losing focus through every
\* Menu above it.
RECURSIVE focusOutAt(_, _, _)
focusOutAt(s, m, related) ==
  LET s1 == Caught(handleFocusOut(s, m, related))
  IN IF m = Root THEN s1 ELSE focusOutAt(s1, Parent(Owner(m)), related)

\* HTMLElement.focus() on element e: a connected element with a tabindex
\* attribute takes the focus, and the element losing it dispatches focusout.
elementFocus(s, e) ==
  IF s.tabindex[e] = "none" \/ ~ElemConn(s, e) \/ s.focused = e THEN s
  ELSE LET old == s.focused
           s1 == [s EXCEPT !.focused = e, !.log = Append(@, <<"focus", e, old>>)]
       IN IF old = outside THEN s1 ELSE focusOutAt(s1, Parent(old), e)

\* A faulty setFocus: a child that is not focusable ends the command instead
\* of being stepped over.
setFocusNoScan(s, m, fi, adjustment) ==
  LET children == s.menuItems[m]
  IN IF ~inRange(fi, Len(children)) THEN s
     ELSE LET child == children[fi + 1]
          IN IF isFocusableElement(child)
             THEN IF ~inRange(s.focusIndex[m], Len(children)) THEN Throw(s)
                  ELSE LET s1 == setTabindex(s, children[s.focusIndex[m] + 1], "-1")
                           s2 == [s1 EXCEPT !.focusIndex[m] = fi]
                           s3 == setTabindex(s2, child, "0")
                       IN elementFocus(s3, child)
             ELSE s

\* Menu.setFocus.
RECURSIVE setFocus(_, _, _, _)
setFocus(s, m, fi, adjustment) ==
  LET children == s.menuItems[m]
  IN IF ~inRange(fi, Len(children)) THEN s
     ELSE LET child == children[fi + 1]
          IN IF isFocusableElement(child)
             THEN IF ~inRange(s.focusIndex[m], Len(children)) THEN Throw(s)
                  ELSE LET s1 == setTabindex(s, children[s.focusIndex[m] + 1], "-1")
                           s2 == [s1 EXCEPT !.focusIndex[m] = fi]
                           s3 == setTabindex(s2, child, "0")
                       IN elementFocus(s3, child)
             ELSE setFocus(s, m, fi + adjustment, adjustment)

\* Menu.focus.
menuFocus(s, m) == setFocus(s, m, 0, 1)

\* ------------------------------------------------------- Menu: keyboard
\* Menu.handleMenuKeyDown.  The template's event binding calls
\* preventDefault unless the handler returns true; an exception leaves the
\* event as it was.
handleMenuKeyDown(s, m, key) ==
  IF s.prevented THEN s
  ELSE IF key \in {"ArrowDown", "ArrowUp", "End", "Home"}
  THEN LET s1 == CASE key = "ArrowDown" -> setFocus(s, m, s.focusIndex[m] + 1, 1)
                   [] key = "ArrowUp" -> setFocus(s, m, s.focusIndex[m] - 1, -1)
                   [] key = "End" -> setFocus(s, m, Len(s.menuItems[m]) - 1, -1)
                   [] key = "Home" -> setFocus(s, m, 0, 1)
       IN IF s1.exc THEN Caught(s1) ELSE [s1 EXCEPT !.prevented = TRUE]
  ELSE s

\* ------------------------------------------------------ Menu: child set
\* A faulty setItems: every focusable child gets an enabled tab stop.
setItemsEveryFocusable(s, m) ==
  LET items == s.menuItems[m]
      fi == findFocusable(items)
      s1 == IF fi # -1 THEN [s EXCEPT !.focusIndex[m] = fi] ELSE s
  IN [s1 EXCEPT
        !.tabindex = [e \in Elements |->
                        IF e \in Range(items)
                        THEN (IF isFocusableElement(e) THEN "0" ELSE "-1")
                        ELSE @[e]],
        !.listening = [e \in Elements |-> IF e \in Range(items) THEN TRUE ELSE @[e]],
        !.inited[m] = TRUE]

\* Menu.setItems.
setItems(s, m) ==
  LET items == s.menuItems[m]
      fi == findFocusable(items)
      s1 == IF fi # -1 THEN [s EXCEPT !.focusIndex[m] = fi] ELSE s
  IN [s1 EXCEPT
        !.tabindex = [e \in Elements |->
                        IF e \in Range(items)
                        THEN (IF indexOf(items, e) = fi THEN "0" ELSE "-1")
                        ELSE @[e]],
        !.listening = [e \in Elements |-> IF e \in Range(items) THEN TRUE ELSE @[e]],
        !.inited[m] = TRUE]

\* A faulty resetItems: the listeners of the previous children stay.
resetItemsKeepsListeners(s, oldValue) == s

\* Menu.resetItems.
resetItems(s, oldValue) ==
  [s EXCEPT !.listening = [e \in Elements |->
                             IF e \in Range(oldValue) THEN FALSE ELSE @[e]]]

\* Menu.itemsChanged, with domChildren() read from the tree.
itemsChanged(s, m, oldValue) ==
  IF MenuConn(s, m)
  THEN setItems(resetItems([s EXCEPT !.menuItems[m] = s.dom[m]], oldValue), m)
  ELSE s

\* Menu.connectedCallback and Menu.disconnectedCallback, run for every Menu
\* whose connection changed between the trees of before and s; an input
\* focus on an element that left the document is dropped.
lifecycle(before, s) ==
  [s EXCEPT
     !.menuItems = [m \in Menus |->
                      IF MenuConn(s, m) /\ ~MenuConn(before, m) THEN s.dom[m]
                      ELSE IF ~MenuConn(s, m) /\ MenuConn(before, m) THEN <<>>
                      ELSE @[m]],
     !.focused = IF @ \in Elements /\ ~ElemConn(s, @) THEN outside ELSE @]

\* ------------------------------------------------------------- MenuItem
\* DOM.queueUpdate(task).
queueUpdate(s, task, i) == [s EXCEPT !.queue = Append(@, <<task, i>>)]

\* this.$emit("change").
emitChange(s, i) == [s EXCEPT !.log = Append(@, <<"emit", "change", i>>)]

\* MenuItem.toggleExpanded.
toggleExpanded(s, i) ==
  IF Len(submenuElements(i)) = 0 THEN s
  ELSE LET s1 == SetExpanded(s, i, ~s.expanded[i])
       IN IF s1.expanded[i] THEN queueUpdate(s1, "setRegionProps", i) ELSE s1

\* A faulty invoke: a plain item without a submenu flips its expanded flag
\* before it raises the change notification.
invokeTogglesPlain(s, i) ==
  IF disabled(i) THEN s
  ELSE IF role(i) \in {"menuitemcheckbox", "menuitemradio"}
  THEN emitChange([s EXCEPT !.checked[i] = ~@], i)
  ELSE IF role(i) = "menuitem"
  THEN (IF Len(submenuElements(i)) > 0 THEN toggleExpanded(s, i)
        ELSE emitChange(SetExpanded(s, i, ~s.expanded[i]), i))
  ELSE s

\* MenuItem.invoke.
invoke(s, i) ==
  IF disabled(i) THEN s
  ELSE IF role(i) \in {"menuitemcheckbox", "menuitemradio"}
  THEN emitChange([s EXCEPT !.checked[i] = ~@], i)
  ELSE IF role(i) = "menuitem"
  THEN (IF Len(submenuElements(i)) > 0 THEN toggleExpanded(s, i) ELSE emitChange(s, i))
  ELSE s

\* A faulty handleMenuItemKeyDown: Left-arrow collapses the item and leaves
\* the input focus where it is.
handleMenuItemKeyDownNoRefocus(s, i, key) ==
  LET handled(x) == [x EXCEPT !.prevented = TRUE]
  IN IF s.prevented THEN s
     ELSE IF key \in {"Enter", "Space"} THEN handled(invoke(s, i))
     ELSE IF key = "ArrowRight"
     THEN handled(IF Len(submenuElements(i)) > 0 THEN toggleExpanded(s, i) ELSE s)
     ELSE IF key = "ArrowLeft" /\ s.expanded[i]
     THEN handled(SetExpanded(s, i, FALSE))
     ELSE s

\* MenuItem.handleMenuItemKeyDown; the binding calls preventDefault unless
\* the handler returns true.
handleMenuItemKeyDown(s, i, key) ==
  LET handled(x) == [x EXCEPT !.prevented = TRUE]
  IN IF s.prevented THEN s
     ELSE IF key \in {"Enter", "Space"} THEN handled(invoke(s, i))
     ELSE IF key = "ArrowRight"
     THEN handled(IF Len(submenuElements(i)) > 0 THEN toggleExpanded(s, i) ELSE s)
     ELSE IF key = "ArrowLeft" /\ s.expanded[i]
     THEN handled(elementFocus(SetExpanded(s, i, FALSE), i))
     ELSE s

\* MenuItem.handleMenuItemClick.
handleMenuItemClick(s, i) ==
  LET handled(x) == [x EXCEPT !.prevented = TRUE]
  IN IF s.prevented \/ disabled(i) THEN handled(s) ELSE handled(invoke(s, i))

\* MenuItem.setRegionProps; addEventListener keeps one registration of the
\* same listener.
setRegionProps(s, i) ==
  IF ~s.expanded[i] THEN s ELSE [s EXCEPT !.regionSub[i] = TRUE]

\* MenuItem.handleAnchoredRegionChange, for a positionchange event of the
\* item's region.
handleAnchoredRegionChange(s, i) ==
  IF disabled(i) \/ Len(submenuElements(i)) = 0 THEN s
  ELSE queueUpdate([s EXCEPT !.regionSub[i] = FALSE, !.prevented = TRUE],
                   "focusSubmenu", i)

\* The task handleAnchoredRegionChange queues.
focusSubmenu(s, i) ==
  LET s1 == setTabindex(s, i, "-1")
  IN IF Len(submenuElements(i)) > 0 THEN menuFocus(s1, submenuElements(i)[1]) ELSE s1

\* One queued task.
runTask(s, task) ==
  Caught(IF task[1] = "setRegionProps" THEN setRegionProps(s, task[2])
         ELSE focusSubmenu(s, task[2]))

\* The update queue's flush: every waiting task, in order.
RECURSIVE processQueue(_)
processQueue(s) ==
  IF s.queue = <<>> THEN s
  ELSE processQueue(runTask([s EXCEPT !.queue = Tail(@)], Head(s.queue)))

\* A keydown event dispatched at element t bubbles through the handler of
\* each MenuItem and Menu above it.
RECURSIVE dispatchKeyDown(_, _, _)
dispatchKeyDown(s, t, key) ==
  LET s1 == IF t \in Items THEN Caught(handleMenuItemKeyDown(s, t, key)) ELSE s
      s2 == handleMenuKeyDown(s1, Parent(t), key)
  IN IF Parent(t) = Root THEN s2 ELSE dispatchKeyDown(s2, Owner(Parent(t)), key)

\* ---------------------------------------------------------------- turns
\* The end of a turn: the state the handlers reached.
Commit(s) ==
  /\ Len(s.queue) <= MaxQueue
  /\ pool' = pool
  /\ changes' = IF s.dom # dom THEN changes + 1 ELSE changes
  /\ rootConnected' = s.rootConnected
  /\ dom' = s.dom
  /\ menuItems' = s.menuItems
  /\ focusIndex' = s.focusIndex
  /\ expandedItem' = s.expandedItem
  /\ inited' = s.inited
  /\ tabindex' = s.tabindex
  /\ expanded' = s.expanded
  /\ checked' = s.checked
  /\ listening' = s.listening
  /\ regionSub' = s.regionSub
  /\ queue' = s.queue
  /\ focused' = s.focused

\* The state after construction: nothing connected, every item collapsed,
\* unchecked and without a tabindex attribute, the children as the markup
\* gives them.
Init ==
  /\ pool \in Pages
  /\ changes = 0
  /\ rootConnected = FALSE
  /\ \E d0 \in ChildLists(pool["m0"]) : \E d1 \in ChildLists(pool["m1"]) :
       dom = [m \in Menus |-> IF m = "m0" THEN d0 ELSE IF m = "m1" THEN d1 ELSE <<>>]
  /\ menuItems = [m \in Menus |-> <<>>]
  /\ focusIndex = [m \in Menus |-> -1]
  /\ expandedItem = [m \in Menus |-> null]
  /\ inited = [m \in Menus |-> FALSE]
  /\ tabindex = [e \in Elements |-> "none"]
  /\ expanded = [i \in Items |-> FALSE]
  /\ checked = [i \in Items |-> FALSE]
  /\ listening = [e \in Elements |-> FALSE]
  /\ regionSub = [i \in Items |-> FALSE]
  /\ queue = <<>>
  /\ focused = outside

\* The root Menu is inserted into the document.
Connect ==
  /\ ~rootConnected
  /\ Commit(lifecycle(State, [State EXCEPT !.rootConnected = TRUE]))

\* The root Menu is removed from the document.
Disconnect ==
  /\ rootConnected
  /\ Commit(lifecycle(State, [State EXCEPT !.rootConnected = FALSE]))

\* The direct children of a connected Menu change (or its first slotchange
\* arrives): the tree changes, then itemsChanged runs.
ItemsChanged(m, new) ==
  /\ MenuConn(State, m)
  /\ IF new = dom[m] THEN ~inited[m] /\ dom[m] # <<>> ELSE changes < MaxChanges
  /\ LET s1 == lifecycle(State, [State EXCEPT !.dom[m] = new])
     IN Commit(itemsChanged(s1, m, dom[m]))

\* A key is pressed: the keydown event goes to the focused element.
KeyDown(key) ==
  /\ focused \in Elements
  /\ Visible(State, focused)
  /\ Commit(dispatchKeyDown(State, focused, key))

\* A displayed item of a Menu that has set up its items is clicked.
Click(i) ==
  /\ Visible(State, i)
  /\ inited[Parent(i)]
  /\ Commit(handleMenuItemClick(State, i))

\* The user moves the input focus to a displayed element of the tree that
\* can take it, or out of the tree.
UserFocus(t) ==
  /\ rootConnected
  /\ t # focused
  /\ IF t = outside
     THEN Commit(focusOutAt([State EXCEPT !.focused = outside], Parent(focused), outside))
     ELSE /\ Visible(State, t)
          /\ tabindex[t] # "none"
          /\ Commit(elementFocus(State, t))

\* A script calls the public Menu.focus() of a connected Menu.
MenuFocus(m) ==
  /\ MenuConn(State, m)
  /\ pool[m] # {}
  /\ Commit(Caught(menuFocus(State, m)))

\* The deferred update turn.
Flush ==
  /\ queue # <<>>
  /\ Commit(processQueue(State))

\* The region of item i reports that its position settled.
PositionSettled(i) ==
  /\ rootConnected
  /\ regionSub[i]
  /\ Commit(handleAnchoredRegionChange(State, i))

Next ==
  \/ Connect
  \/ Disconnect
  \/ \E m \in Menus : \E new \in ChildLists(pool[m]) : ItemsChanged(m, new)
  \/ \E key \in Keys : KeyDown(key)
  \/ \E i \in Items : Click(i)
  \/ \E t \in Elements \cup {outside} : UserFocus(t)
  \/ \E m \in Menus : MenuFocus(m)
  \/ Flush
  \/ \E i \in Items : PositionSettled(i)

Spec == Init /\ [][Next]_vars

\* ---------------------------------------------------------------- claims
\* A Menu that is in the document and has set up its items at least once:
\* the state in which it takes user input.
Live(m) == MenuConn(State, m) /\ inited[m]

\* The direct children of Menu m whose tab stop is enabled.
TabStops(m) == {e \in Range(dom[m]) : tabindex[e] = "0"}

\* The direct children of Menu m that are focusable.
Focusable(m) == {e \in Range(dom[m]) : isFocusableElement(e)}

\* The direct children of Menu m that are expanded.
ExpandedChildren(m) == {e \in Range(dom[m]) \cap Items : expanded[e]}

FocusChild(m) ==
  IF inRange(focusIndex[m], Len(menuItems[m])) THEN menuItems[m][focusIndex[m] + 1]
  ELSE null

C2_AtMostOneExpanded ==
  \A m \in Menus : Live(m) => Cardinality(ExpandedChildren(m)) <= 1

\* C2 witness: b was opened (its region subscription is still held) and is
\* collapsed again while its sibling c is the one expanded child.
C2_Witness ==
  /\ Live("m0")
  /\ {"b", "c"} \subseteq Range(dom["m0"])
  /\ ExpandedChildren("m0") = {"c"}
  /\ regionSub["b"]

\* The places of an entry in a turn's log.
LogAt(log, entry) == {n \in 1..Len(log) : log[n] = entry}

\* The states the activation triggers of item i lead to from the current
\* state: a click, and Enter, Space and Right-arrow pressed on the item.
Activations(i) ==
  {handleMenuItemClick(State, i)}
    \cup {dispatchKeyDown(State, i, key) : key \in {"Enter", "Space", "ArrowRight"}}

\* Child C of Menu m can be activated while its sibling B is the recorded
\* expanded child.
C3_Case(m, B, C) ==
  /\ Live(m)
  /\ {B, C} \subseteq Range(menuItems[m]) \cap Items
  /\ B # C
  /\ expandedItem[m] = B
  /\ expanded[B]
  /\ ~expanded[C]
  /\ Visible(State, C)

\* In the turn that led to r, B was collapsed, B's collapse notification was
\* emitted and cleared the record, and only then was C recorded; at the end
\* C is expanded and recorded and B is collapsed.
C3_Ordered(r, m, B, C) ==
  /\ r.expanded[C]
  /\ ~r.expanded[B]
  /\ r.expandedItem[m] = C
  /\ \E n1 \in LogAt(r.log, <<"expanded", B, "false">>) :
     \E n2 \in LogAt(r.log, <<"emit", "expanded-change", B>>) :
     \E n3 \in LogAt(r.log, <<"expandedItem", m, null>>) :
     \E n4 \in LogAt(r.log, <<"expandedItem", m, C>>) :
       /\ n1 < n2 /\ n2 < n3 /\ n3 < n4
       /\ \A n \in LogAt(r.log, <<"expandedItem", m, C>>) : n = n4
       /\ n4 = Len(r.log) \/ r.log[n4 + 1][1] # "expandedItem"

\* C3: when child C of a Menu expands while a different sibling B is the
\* recorded expanded child, B is collapsed and its collapse notification is
\* processed before the Menu records C, and the handler ends with C
\* expanded, B collapsed and expandedItem = C.
C3_SiblingCollapsedFirst ==
  \A m \in Menus : \A B \in Items : \A C \in Items :
    C3_Case(m, B, C) =>
      \A r \in Activations(C) : r.expanded[C] => C3_Ordered(r, m, B, C)

\* C3 witness: b is the recorded expanded child, its sibling c is collapsed
\* and holds the focus, and pressing Enter on c expands it.
C3_Witness ==
  /\ C3_Case("m0", "b", "c")
  /\ focused = "c"
  /\ dispatchKeyDown(State, "c", "Enter").expanded["c"]

\* C7 (as claimed): at the end of every turn a Menu's expandedItem is a
\* child C exactly when C is a direct child with expanded = true, and is
\* null exactly when no direct child is expanded.
C7_RecordTracksExpanded ==
  \A m \in Menus :
    Live(m) =>
      /\ \A C \in Items : expandedItem[m] = C <=> C \in ExpandedChildren(m)
      /\ expandedItem[m] = null <=> ExpandedChildren(m) = {}

\* Focus is on an element inside Menu m and moves to related: the focusout
\* event reaches m's handler.
C4_Case(m, related) ==
  /\ Live(m)
  /\ focused \in Elements
  /\ Contains(State, m, focused)
  /\ related # focused
  /\ related \in Elements => Visible(State, related)

\* C4 (as claimed): when focus moves to a target outside the Menu's subtree,
\* after the handler the Menu has no expanded child and no recorded one,
\* focusIndex is the index of the first focusable direct child, that child's
\* tab stop is enabled and the previously focused child's is disabled; when
\* the target is inside the subtree nothing changes.
C4_FocusOutReset ==
  \A m \in Menus : \A related \in Elements \cup {outside} :
    C4_Case(m, related) =>
      LET r == handleFocusOut(State, m, related)
          fi == findFocusable(menuItems[m])
      IN IF Contains(State, m, related) THEN r = State
         ELSE /\ \A e \in Range(dom[m]) \cap Items : ~r.expanded[e]
              /\ r.expandedItem[m] = null
              /\ r.focusIndex[m] = fi
              /\ fi # -1 => r.tabindex[menuItems[m][fi + 1]] = "0"
              /\ (FocusChild(m) # null /\ focusIndex[m] # fi)
                   => r.tabindex[FocusChild(m)] = "-1"

\* C5 (as claimed): the child of a Menu that holds the enabled tab stop, and
\* the child that holds the input focus after a navigation key, is never a
\* disabled item.
C5_DisabledNeverTabStop ==
  \A m \in Menus :
    Live(m) =>
      /\ \A e \in TabStops(m) : ~disabled(e)
      /\ \A key \in {"ArrowDown", "ArrowUp", "Home", "End"} :
           (focused \in Range(menuItems[m]) /\ Visible(State, focused)) =>
             LET r == dispatchKeyDown(State, focused, key)
             IN \A e \in Range(dom[m]) :
                  (r.tabindex[e] = "0" \/ r.focused = e) => ~disabled(e)

\* The state a new turn starts from: the previous turn's event and its
\* observations are gone.
NewTurn(s) == [s EXCEPT !.log = <<>>, !.threw = FALSE, !.exc = FALSE, !.prevented = FALSE]

\* What may happen between two activations of item i: nothing, a deferred
\* update turn, or a deferred update turn followed by the position-settled
\* notification and its own deferred update turn.
Between(s, i) ==
  LET flushed == processQueue(NewTurn(s))
  IN {s, flushed}
       \cup (IF flushed.regionSub[i]
             THEN {processQueue(Caught(handleAnchoredRegionChange(NewTurn(flushed), i)))}
             ELSE {})

\* A non-disabled plain item with a submenu, collapsed, that the user can
\* activate and that holds no subscription on its region.
C6_Case(i) ==
  /\ Live(Parent(i))
  /\ Visible(State, i)
  /\ ~disabled(i)
  /\ role(i) = "menuitem"
  /\ Len(submenuElements(i)) > 0
  /\ ~expanded[i]
  /\ ~regionSub[i]
  /\ queue = <<>>

\* C6 (as claimed): two consecutive activations of a non-disabled
\* submenu-owning item, with or without a deferred update turn or a
\* position-settled notification between them, leave expanded as it was and
\* leave no position-settled subscription behind from the cancelled opening.
C6_ToggleIdempotent ==
  \A i \in Items :
    C6_Case(i) =>
      \A mid \in Between(handleMenuItemClick(State, i), i) :
        LET r == processQueue(NewTurn(handleMenuItemClick(NewTurn(mid), i)))
        IN /\ r.expanded[i] = expanded[i]
           /\ ~r.regionSub[i]

\* A plain item without a submenu, not disabled, that the user can activate.
C8_Case(i) ==
  /\ Live(Parent(i))
  /\ Visible(State, i)
  /\ ~disabled(i)
  /\ role(i) = "menuitem"
  /\ Len(submenuElements(i)) = 0

\* C8: activating a plain item that has no submenu raises one change
\* notification and nothing else: its own expanded, every sibling's expanded
\* and the Menu's expandedItem stay as they were.
C8_PlainActivationOnlyChange ==
  \A i \in Items :
    C8_Case(i) =>
      \A r \in {handleMenuItemClick(State, i),
                dispatchKeyDown(State, i, "Enter"),
                dispatchKeyDown(State, i, "Space")} :
        /\ r.log = << <<"emit", "change", i>> >>
        /\ r.expanded = expanded
        /\ r.expandedItem = expandedItem
        /\ r.checked = checked
        /\ r.queue = queue

\* C8 witness: the plain item a holds the focus next to its expanded and
\* recorded sibling b, and Enter on a raises the change notification.
C8_Witness ==
  /\ C8_Case("a")
  /\ focused = "a"
  /\ "b" \in Range(menuItems["m0"])
  /\ expanded["b"]
  /\ expandedItem["m0"] = "b"
  /\ dispatchKeyDown(State, "a", "Enter").log = << <<"emit", "change", "a">> >>

\* C9 (as claimed): an item whose role is checkbox-item or radio-item is
\* never expanded.
C9_CheckableNeverExpanded ==
  \A i \in Items : role(i) \in {"menuitemcheckbox", "menuitemradio"} => ~expanded[i]

\* The notifications a turn raised.
Emitted(log) == {n \in 1..Len(log) : log[n][1] = "emit"}

\* C10 (as claimed): each activation trigger on a disabled item (a click, or
\* Enter, Space or Right-arrow while it holds the focus) leaves expanded and
\* checked unchanged, raises no notification, requests no positioning and is
\* reported handled.
C10_DisabledActivationNoOp ==
  \A i \in Items :
    (disabled(i) /\ Live(Parent(i)) /\ Visible(State, i)) =>
      \A r \in {handleMenuItemClick(State, i)}
                 \cup (IF focused = i
                       THEN {dispatchKeyDown(State, i, key) :
                               key \in {"Enter", "Space", "ArrowRight"}}
                       ELSE {}) :
        /\ r.expanded = expanded
        /\ r.checked = checked
        /\ Emitted(r.log) = {}
        /\ r.queue = queue
        /\ r.prevented

\* C11: an expansion-changed notification whose source is not in the Menu's
\* menuItems is ignored: the handler returns without changing expandedItem,
\* focusIndex, any tab stop or any expanded flag, and without an error.
C11_ForeignSourceIgnored ==
  \A m \in Menus : \A i \in Items :
    indexOf(menuItems[m], i) < 0 => handleExpandedChanged(State, m, i) = State

\* C11 witness: c was expanded and recorded by m0 and has since been taken
\* out of m0's children, which still has b; p is an expanded item of the
\* nested submenu m1 in another page.  Either is a foreign source for m0.
C11_Witness ==
  /\ Live("m0")
  /\ menuItems["m0"] # <<>>
  /\ \E i \in Items :
       /\ indexOf(menuItems["m0"], i) < 0
       /\ expanded[i]
       /\ expandedItem["m0"] # null
       /\ expandedItem["m0"] \in {i, Owner(Parent(i))}

\* The navigation commands of Menu m: the four keys and the public focus().
Navigations(m) ==
  {handleMenuKeyDown(State, m, key) : key \in {"ArrowDown", "ArrowUp", "Home", "End"}}
    \cup {menuFocus(State, m)}

\* C12 (as claimed): when no child of a connected Menu is focusable, every
\* navigation command raises no error, leaves focusIndex at -1 and changes
\* no tab stop and no input focus.
C12_NavigationNoOp ==
  \A m \in Menus :
    (MenuConn(State, m) /\ findFocusable(menuItems[m]) = -1) =>
      \A r \in Navigations(m) :
        /\ ~r.threw
        /\ r.focusIndex[m] = -1
        /\ r.tabindex = tabindex
        /\ r.focused = focused

\* C13 (as claimed): a Menu's expandedItem is null or one of its current
\* children, also after its children changed and after it was disconnected.
C13_NoStaleExpandedItem ==
  \A m \in Menus : expandedItem[m] = null \/ expandedItem[m] \in Range(menuItems[m])

\* C14 (as claimed): an item that is not in the document holds no
\* position-settled subscription on its region.
C14_DetachedHoldsNoSubscription ==
  \A i \in Items : regionSub[i] => ElemConn(State, i)

\* The items and the Menus anywhere below item i in the tree of state s.
RECURSIVE ItemsBelow(_, _)
ItemsBelow(s, i) ==
  LET direct == UNION {Range(s.dom[m]) \cap Items : m \in Range(submenuElements(i))}
  IN direct \cup UNION {ItemsBelow(s, j) : j \in direct}

MenusBelow(s, i) ==
  Range(submenuElements(i))
    \cup UNION {Range(submenuElements(j)) : j \in ItemsBelow(s, i)}

\* The turns that can collapse item i: Left-arrow, Enter, Space or
\* Right-arrow on it, a click on it or on any other displayed item, and the
\* focus leaving its Menu.
CollapseTurns(i) ==
  {dispatchKeyDown(State, i, key) : key \in {"ArrowLeft", "Enter", "Space", "ArrowRight"}}
    \cup {handleMenuItemClick(State, j) : j \in {j \in Items : Visible(State, j)}}
    \cup {focusOutAt(State, Parent(i), outside)}

\* A connected, displayed, expanded item that owns submenu elements, in a
\* Menu that has set up its items.
C15_Case(i) ==
  /\ Live(Parent(i))
  /\ Visible(State, i)
  /\ Len(submenuElements(i)) > 0
  /\ expanded[i]

C16_Case(i) ==
  /\ Live(Parent(i))
  /\ \A m \in Range(submenuElements(i)) : dom[m] # <<>> => Live(m)
  /\ ElemConn(State, i)
  /\ Len(submenuElements(i)) > 0
  /\ expanded[i]
  /\ regionSub[i]
  /\ queue = <<>>

\* The first child of Menu m that Menu.focus() would focus, or null.
FirstFocusable(s, m) ==
  IF findFocusable(s.menuItems[m]) = -1 THEN null
  ELSE s.menuItems[m][findFocusable(s.menuItems[m]) + 1]

\* The position-settled notification of item i followed by the deferred
\* update turn it asks for.
Settled(s, i) == processQueue(NewTurn(Caught(handleAnchoredRegionChange(NewTurn(s), i))))

\* C16 (as claimed): the first position-settled notification after an item opened its
\* submenu moves the input focus to the first focusable child of the first
\* submenu element, sets the item's tab stop to -1 and removes the
\* subscription, so that a further notification finds no listener; the
\* deferred update that subscribes moves no focus and leaves the item
\* expanded, and so does the wait for a notification that never comes.
C16_OneShotTransfer ==
  \A i \in Items :
    /\ C16_Case(i) =>
         LET r == Settled(State, i)
             sub == submenuElements(i)[1]
         IN /\ ~r.regionSub[i]
            /\ r.tabindex[i] = "-1"
            /\ r.expanded[i]
            /\ r.queue = <<>>
            /\ FirstFocusable(State, sub) # null => r.focused = FirstFocusable(State, sub)
            /\ FirstFocusable(State, sub) = null => r.focused = focused
    /\ (queue = << <<"setRegionProps", i>> >> /\ expanded[i]) =>
         LET r == processQueue(State)
         IN /\ r.focused = focused
            /\ r.tabindex = tabindex
            /\ r.expanded = expanded
            /\ r.regionSub[i]
            /\ r.queue = <<>>

\* C17: Left-arrow on an expanded item collapses it, returns the input focus
\* to it and marks the event handled; Left-arrow on an item that is not
\* expanded changes nothing and leaves the event unhandled, and the item's
\* Menu leaves it unhandled as well.
C17_LeftArrow ==
  \A i \in Items :
    (Live(Parent(i)) /\ Visible(State, i)) =>
      LET r == Caught(handleMenuItemKeyDown(State, i, "ArrowLeft"))
      IN IF expanded[i]
         THEN /\ ~r.expanded[i]
              /\ r.focused = i
              /\ r.prevented
         ELSE /\ r = State
              /\ handleMenuKeyDown(r, Parent(i), "ArrowLeft") = State

\* C17 witness: b is expanded, the focus is on p inside its submenu, and
\* Left-arrow pressed there passes p and the submenu unhandled, collapses b
\* and brings the focus back to b.
C17_Witness ==
  /\ Live("m0")
  /\ Visible(State, "p")
  /\ expanded["b"]
  /\ ~expanded["p"]
  /\ focused = "p"
  /\ dispatchKeyDown(State, "p", "ArrowLeft").focused = "b"
  /\ ~dispatchKeyDown(State, "p", "ArrowLeft").expanded["b"]

\* C18 (as claimed): a Menu's focusIndex is -1 when no child is focusable,
\* and otherwise designates a focusable child, the one that holds the single
\* enabled tab stop.
C18_FocusIndexInvariant ==
  \A m \in Menus :
    Live(m) =>
      IF Focusable(m) = {} THEN focusIndex[m] = -1
      ELSE /\ inRange(focusIndex[m], Len(menuItems[m]))
           /\ isFocusableElement(FocusChild(m))
           /\ TabStops(m) = {FocusChild(m)}

\* The index a navigation key asks for in the children list seq when the
\* focus index is fi: the nearest focusable index after or before fi, or the
\* first or last focusable index; -1 when there is none.
NavTarget(seq, fi, key) ==
  LET focusables == {n \in 0..(Len(seq) - 1) : isFocusableElement(seq[n + 1])}
      candidates == CASE key = "ArrowDown" -> {n \in focusables : n > fi}
                      [] key = "ArrowUp" -> {n \in focusables : n < fi}
                      [] OTHER -> focusables
      least(S) == CHOOSE n \in S : \A k \in S : n <= k
      greatest(S) == CHOOSE n \in S : \A k \in S : n >= k
  IN IF candidates = {} THEN -1
     ELSE IF key \in {"ArrowDown", "Home"} THEN least(candidates)
     ELSE greatest(candidates)

C20_ChildSetMaintenance ==
  \A m \in Menus : \A new \in ChildLists(pool[m]) :
    MenuConn(State, m) =>
      LET r == itemsChanged(lifecycle(State, [State EXCEPT !.dom[m] = new]), m, dom[m])
      IN /\ r.menuItems[m] = new
         /\ \A e \in pool[m] : r.listening[e] <=> e \in Range(new)
         /\ r.inited[m]
         /\ \A n \in 1..Len(new) :
              r.tabindex[new[n]] = IF n - 1 = findFocusable(new) THEN "0" ELSE "-1"

\* C20 witness: c was a child of the Menu (it got a tabindex from it) and
\* the children have changed since: c is gone and is no longer listened to,
\* b is listened to and holds the tab stop.
C20_Witness ==
  /\ Live("m0")
  /\ changes = 1
  /\ pool["m0"] = {"b", "c"}
  /\ dom["m0"] = <<"b">>
  /\ ~listening["c"]
  /\ listening["b"]
  /\ tabindex["c"] # "none"
  /\ tabindex["b"] = "0"

\* C21 (as claimed): an expanded item owns a non-empty submenu and is not
\* disabled.
C21_ExpandedReachability ==
  \A i \in Items : expanded[i] => (Len(submenuElements(i)) > 0 /\ ~disabled(i))

\* C22 (as claimed): focus(), the handling of Down, Up, Home and End, and
\* the focus-out handling of a connected Menu never index its children
\* outside [0, length): none of them ends in the TypeError that the use of
\* such an element raises.
C22_NoOutOfRangeAccess ==
  \A m \in Menus :
    /\ MenuConn(State, m) => \A r \in Navigations(m) : ~r.threw
    /\ \A related \in Elements \cup {outside} :
         C4_Case(m, related) => ~handleFocusOut(State, m, related).threw

\* C23 (as claimed): a position-settled notification delivered to an item
\* that is not expanded moves no input focus and leaves the item's tab stop
\* as it is.
C23_TransferOnlyWhileExpanded ==
  \A i \in Items :
    (rootConnected /\ regionSub[i] /\ ~expanded[i] /\ queue = <<>>) =>
      LET r == Settled(State, i)
      IN /\ r.focused = focused
         /\ r.tabindex[i] = tabindex[i]
====
